---------------------------- MODULE Spec2Model ----------------------------
(***************************************************************************)
(* The provider portal (src/src/components/ui/provider_portal.tsx): the    *)
(* state held by ProviderPortalApp (route, email, offers, conversations,   *)
(* selectedConversationId), the two localStorage items its effects write,  *)
(* the local state of OffersPage and MessagesPage, the handlers the pages  *)
(* call, the derived views the pages compute, and exportCSV.               *)
(*                                                                         *)
(* JavaScript strings are TLA+ strings; where the code looks inside a      *)
(* string (trim, toLowerCase, join, includes) the string's characters are  *)
(* taken from CharTable.  The en dash of two seed titles is written        *)
(* (U+2013) and is the single character "U+2013".                          *)
(***************************************************************************)
EXTENDS Integers, Sequences, FiniteSets, TLC

VARIABLES
    route,                   \* useState<Route>, line 815
    email,                   \* useState<string>, line 816
    offers,                  \* useState<Offer[]>, line 817: a JavaScript value
    conversations,           \* useState<Conversation[]>, line 825: a JavaScript value
    selectedConversationId,  \* useState<string | null>, line 833
    storage,                 \* localStorage items pp_offers and pp_conversations
    pendingEffects,          \* the effects of lines 837-843 scheduled by the last commit
    crashed,                 \* a render threw and React unmounted the tree
    thrown,                  \* an event handler threw
    clock,                   \* number of sendMessage calls so far: the time new Date() reads
    query,                   \* OffersPage useState, line 430
    status,                  \* OffersPage useState, line 431
    open,                    \* OffersPage useState, line 432: the details dialog is open
    active,                  \* OffersPage useState<Offer | null>, line 433
    value,                   \* MessagesPage useState, line 631: the text in the input
    rows,                    \* the argument of the last exportCSV call
    download                 \* what the last exportCSV call handed to the browser

vars == <<route, email, offers, conversations, selectedConversationId,
          storage, pendingEffects, crashed, thrown, clock, query, status,
          open, active, value, rows, download>>

\* Bound on the number of sendMessage calls in a behaviour.
MaxSends == 1

\* Bound on the number of records handed to exportCSV.
MaxRows == 2

-----------------------------------------------------------------------------
(* Characters of the strings the code inspects.                            *)

CharTable ==
    ("OF-1029" :> <<"O", "F", "-", "1", "0", "2", "9">>)
    @@ ("Smart City Kiosk Network" :> <<"S", "m", "a", "r", "t", " ", "C", "i", "t", "y", " ", "K", "i", "o", "s", "k", " ", "N", "e", "t", "w", "o", "r", "k">>)
    @@ ("NEO Holdings" :> <<"N", "E", "O", " ", "H", "o", "l", "d", "i", "n", "g", "s">>)
    @@ ("IoT Integration" :> <<"I", "o", "T", " ", "I", "n", "t", "e", "g", "r", "a", "t", "i", "o", "n">>)
    @@ ("OF-1034" :> <<"O", "F", "-", "1", "0", "3", "4">>)
    @@ ("Cloud Migration (U+2013) Municipal Services" :> <<"C", "l", "o", "u", "d", " ", "M", "i", "g", "r", "a", "t", "i", "o", "n", " ", "U+2013", " ", "M", "u", "n", "i", "c", "i", "p", "a", "l", " ", "S", "e", "r", "v", "i", "c", "e", "s">>)
    @@ ("Jeddah Municipality" :> <<"J", "e", "d", "d", "a", "h", " ", "M", "u", "n", "i", "c", "i", "p", "a", "l", "i", "t", "y">>)
    @@ ("Cloud Solutions" :> <<"C", "l", "o", "u", "d", " ", "S", "o", "l", "u", "t", "i", "o", "n", "s">>)
    @@ ("OF-1039" :> <<"O", "F", "-", "1", "0", "3", "9">>)
    @@ ("Mobile App (U+2013) Citizen Portal" :> <<"M", "o", "b", "i", "l", "e", " ", "A", "p", "p", " ", "U+2013", " ", "C", "i", "t", "i", "z", "e", "n", " ", "P", "o", "r", "t", "a", "l">>)
    @@ ("Najm Tech" :> <<"N", "a", "j", "m", " ", "T", "e", "c", "h">>)
    @@ ("Mobile Development" :> <<"M", "o", "b", "i", "l", "e", " ", "D", "e", "v", "e", "l", "o", "p", "m", "e", "n", "t">>)
    @@ ("OF-1042" :> <<"O", "F", "-", "1", "0", "4", "2">>)
    @@ ("Factory Telemetry Retrofit" :> <<"F", "a", "c", "t", "o", "r", "y", " ", "T", "e", "l", "e", "m", "e", "t", "r", "y", " ", "R", "e", "t", "r", "o", "f", "i", "t">>)
    @@ ("Al Noor Steel" :> <<"A", "l", " ", "N", "o", "o", "r", " ", "S", "t", "e", "e", "l">>)
    @@ ("" :> <<>>)
    @@ (" Smart" :> <<" ", "S", "m", "a", "r", "t">>)
    @@ ("k NEO" :> <<"k", " ", "N", "E", "O">>)
    @@ ("  " :> <<" ", " ">>)
    @@ ("IOT" :> <<"I", "O", "T">>)
    @@ ("of-10" :> <<"o", "f", "-", "1", "0">>)
    @@ ("1042 " :> <<"1", "0", "4", "2", " ">>)
    @@ (" ok " :> <<" ", "o", "k", " ">>)
    @@ ("ok" :> <<"o", "k">>)
    @@ ("hi" :> <<"h", "i">>)
    @@ ("a" :> <<"a">>)
    @@ ("b" :> <<"b">>)
    @@ ("p" :> <<"p">>)
    @@ ("x,y" :> <<"x", ",", "y">>)
    @@ ("i\"n" :> <<"i", "\"", "n">>)
    @@ ("l\nm" :> <<"l", "\n", "m">>)

Chars(s) == CharTable[s]

-----------------------------------------------------------------------------
(* JavaScript values that JSON.parse can return, and localStorage items.   *)

JNull == [t |-> "null"]
JNumber(n) == [t |-> "number", n |-> n]
JString(s) == [t |-> "string", s |-> s]
JObject == [t |-> "object"]
JArray(items) == [t |-> "array", items |-> items]

IsArray(v) == v.t = "array"

\* null, as a value of selectedConversationId
NULL == "null"

\* localStorage.getItem returns null for a missing key, else the stored string.
NoItem == [k |-> "null"]
\* a stored string that is not JSON text
RawText(s) == [k |-> "string", parses |-> FALSE, s |-> s]
\* the JSON text of value v
JsonText(v) == [k |-> "string", parses |-> TRUE, v |-> v]

\* JavaScript truthiness of what getItem returned: null and "" are falsy.
Truthy(item) == item.k = "string" /\ item # RawText("")

\* JSON.stringify of a state value: its JSON text
JSON_stringify(v) == JsonText(v)

\* JSON.parse: the value of a JSON text, a SyntaxError for any other string
JSON_parse(text) ==
    IF text.parses THEN [threw |-> FALSE, v |-> text.v] ELSE [threw |-> TRUE]

-----------------------------------------------------------------------------
(* Seed data, lines 117-198.  Times are minutes relative to module load.   *)

seedOffers == <<
    [id |-> "OF-1029", projectTitle |-> "Smart City Kiosk Network",
     holderName |-> "NEO Holdings", budget |-> 1850000, timelineMonths |-> 6,
     technology |-> "IoT Integration", receivedAt |-> "2025-08-03",
     status |-> "pending",
     note |-> "Looking for end-to-end provider with proven SLA."],
    [id |-> "OF-1034", projectTitle |-> "Cloud Migration (U+2013) Municipal Services",
     holderName |-> "Jeddah Municipality", budget |-> 2200000, timelineMonths |-> 8,
     technology |-> "Cloud Solutions", receivedAt |-> "2025-08-12",
     status |-> "accepted"],
    [id |-> "OF-1039", projectTitle |-> "Mobile App (U+2013) Citizen Portal",
     holderName |-> "Najm Tech", budget |-> 640000, timelineMonths |-> 4,
     technology |-> "Mobile Development", receivedAt |-> "2025-08-18",
     status |-> "pending"],
    [id |-> "OF-1042", projectTitle |-> "Factory Telemetry Retrofit",
     holderName |-> "Al Noor Steel", budget |-> 930000, timelineMonths |-> 5,
     technology |-> "IoT Integration", receivedAt |-> "2025-08-22",
     status |-> "declined"] >>

seedConversations == <<
    [id |-> "C-101", holderName |-> "NEO Holdings", holderInitials |-> "NH",
     projectTitle |-> "Smart City Kiosk Network", lastSeenAt |-> 0,
     messages |-> <<
        [id |-> "m1", from |-> "holder",
         body |-> "Hi, could you share rough milestones for the kiosk rollout?",
         at |-> -60],
        [id |-> "m2", from |-> "provider",
         body |-> "Absolutely. Drafting a 3-phase plan: survey, pilot, scale.",
         at |-> -45] >>],
    [id |-> "C-102", holderName |-> "Jeddah Municipality", holderInitials |-> "JM",
     projectTitle |-> "Cloud Migration (U+2013) Municipal Services", lastSeenAt |-> 0,
     messages |-> <<
        [id |-> "m1", from |-> "holder",
         body |-> "We need RTO <= 30 minutes across regions.",
         at |-> -120] >>] >>

OfferStatuses == {"pending", "accepted", "declined"}

-----------------------------------------------------------------------------
(* What localStorage may hold when the application starts.                 *)

\* an offer collection of another length, as an earlier import would leave
storedOffers == <<
    [seedOffers[1] EXCEPT !.status = "accepted"],
    seedOffers[2],
    [seedOffers[3] EXCEPT !.status = "declined"] >>

\* a conversation collection an earlier session left
storedConversations == <<
    [seedConversations[2] EXCEPT !.messages =
        Append(@, [id |-> "k3x", from |-> "provider", body |-> "ok", at |-> -10])],
    [id |-> "C-103", holderName |-> "Jeddah Municipality", holderInitials |-> "JM",
     projectTitle |-> "Factory Telemetry Retrofit", lastSeenAt |-> -5,
     messages |-> << >>] >>

MalformedItems ==
    { JsonText(JNull), JsonText(JNumber(0)), JsonText(JNumber(5)),
      JsonText(JString("abc")), JsonText(JObject) }

UnparseableItems == { NoItem, RawText(""), RawText("not json{") }

OffersItems ==
    UnparseableItems \cup MalformedItems
        \cup { JsonText(JArray(<< >>)), JsonText(JArray(storedOffers)) }

ConversationsItems ==
    UnparseableItems \cup MalformedItems
        \cup { JsonText(JArray(<< >>)), JsonText(JArray(storedConversations)) }

-----------------------------------------------------------------------------
(* Construction: the useState initializers, lines 815-835.                 *)

\* the catch branch returning an empty list instead of the seed
initOffers_emptyOnError(cached) ==
    IF Truthy(cached)
    THEN LET r == JSON_parse(cached) IN IF r.threw THEN JArray(<< >>) ELSE r.v
    ELSE JArray(seedOffers)

initOffers(cached) ==
    IF Truthy(cached)
    THEN LET r == JSON_parse(cached) IN IF r.threw THEN JArray(seedOffers) ELSE r.v
    ELSE JArray(seedOffers)

initConversations(cached) ==
    IF Truthy(cached)
    THEN LET r == JSON_parse(cached) IN IF r.threw THEN JArray(seedConversations) ELSE r.v
    ELSE JArray(seedConversations)

\* (conversations && conversations[0]?.id) ?? null, for null, a number, a
\* non-empty string, an object without key "0", or an array of conversations.
\* The number 0 is falsy and not nullish, so it is the result itself; it is
\* written "0" here, which is the id of no conversation.
initSelected(convs) ==
    IF IsArray(convs)
    THEN IF Len(convs.items) > 0 THEN convs.items[1].id ELSE NULL
    ELSE IF convs = JNumber(0) THEN "0" ELSE NULL

\* Which page the route renders, and whether rendering it throws: DashboardPage,
\* OffersPage and ReportsPage call offers.filter, MessagesPage calls
\* conversations.find (lines 371, 437, 630, 724, 887-908).
RenderThrows(r, offs, convs) ==
    \/ r \in {"dashboard", "offers", "reports"} /\ ~IsArray(offs)
    \/ r = "messages" /\ ~IsArray(convs)

\* What a call of exportCSV hands to the browser: a file (lines 108-114) or
\* nothing (the return of line 96); NotCalled before the first call.
NotCalled == [k |-> "not called"]
NoFile == [k |-> "no file"]
File(text) == [k |-> "file", text |-> text]

\* The state after construction, for localStorage items io and ic.
InitPortal(io, ic) ==
    /\ storage = [pp_offers |-> io, pp_conversations |-> ic]
    /\ route = "login"
    /\ email = ""
    /\ offers = initOffers(io)
    /\ conversations = initConversations(ic)
    /\ selectedConversationId = initSelected(initConversations(ic))
    /\ pendingEffects = {"offers", "conversations"}
    /\ crashed = FALSE
    /\ thrown = FALSE
    /\ clock = 0
    /\ query = ""
    /\ status = "all"
    /\ open = FALSE
    /\ active = JNull
    /\ value = ""

Init ==
    \E io \in OffersItems, ic \in ConversationsItems :
        /\ InitPortal(io, ic)
        /\ rows = << >>
        /\ download = NotCalled

-----------------------------------------------------------------------------
(* The persistence effects, lines 837-843.  React runs the effects of a    *)
(* commit, in order, before it handles the next event.                     *)

FlushEffects ==
    /\ ~crashed
    /\ pendingEffects # {}
    /\ storage' =
         [pp_offers |-> IF "offers" \in pendingEffects
                        THEN JSON_stringify(offers) ELSE storage.pp_offers,
          pp_conversations |-> IF "conversations" \in pendingEffects
                               THEN JSON_stringify(conversations)
                               ELSE storage.pp_conversations]
    /\ pendingEffects' = {}
    /\ UNCHANGED <<route, email, offers, conversations, selectedConversationId,
                   crashed, thrown, clock, query, status,
                   value, active, open, rows, download>>

\* handlers running while the effects of the last commit are still pending
Idle_effectsDeferred == ~crashed

\* A handler runs when the tree is mounted and the last commit's effects have run.
Idle == ~crashed /\ pendingEffects = {}

-----------------------------------------------------------------------------
(* Login, lines 200-206 and 845-848.                                       *)

Emails == {"", "a@b.co"}

handleLogin(e) ==
    /\ email' = e
    /\ route' = "dashboard"
    /\ crashed' = RenderThrows("dashboard", offers, conversations)
    /\ UNCHANGED <<offers, conversations, selectedConversationId, storage,
                   pendingEffects, thrown, clock, query, status,
                   value, active, open, rows, download>>

\* onLogin(email) without the default
handleSubmit_noDefault(typed) ==
    /\ Idle
    /\ route = "login"
    /\ handleLogin(typed)

\* Login.handleSubmit with the text typed in the email field
handleSubmit(typed) ==
    /\ Idle
    /\ route = "login"
    /\ handleLogin(IF typed # "" THEN typed ELSE "provider@example.com")

\* Sidebar: onRoute = setRoute, lines 324-350 and 894.  The page of the old
\* route unmounts, so OffersPage starts again with its initial local state.
setRoute(r) ==
    /\ Idle
    /\ route # "login"
    /\ route' = r
    /\ crashed' = RenderThrows(r, offers, conversations)
    /\ query' = IF r = route THEN query ELSE ""
    /\ status' = IF r = route THEN status ELSE "all"
    /\ open' = IF r = route THEN open ELSE FALSE
    /\ active' = IF r = route THEN active ELSE JNull
    /\ value' = IF r = route THEN value ELSE ""
    /\ UNCHANGED <<email, offers, conversations, selectedConversationId, storage,
                   pendingEffects, thrown, clock, rows, download>>

SidebarRoutes == {"dashboard", "offers", "messages", "reports", "profile"}

-----------------------------------------------------------------------------
(* updateOffer, lines 850-852, and its callers in OffersPage.              *)

\* the spread in the other order, { ...next, ...o }: the old fields win
Merge_patchFirst(o, next) ==
    [f \in (DOMAIN o) \cup (DOMAIN next) |-> IF f \in DOMAIN o THEN o[f] ELSE next[f]]

\* { ...o, ...next }
Merge(o, next) ==
    [f \in (DOMAIN o) \cup (DOMAIN next) |-> IF f \in DOMAIN next THEN next[f] ELSE o[f]]

\* the patched offer moved to the front of the list
mapOffers_moveToFront(prev, id, next) ==
    LET hits == SelectSeq(prev, LAMBDA o : o.id = id)
        rest == SelectSeq(prev, LAMBDA o : o.id # id)
    IN [i \in DOMAIN hits |-> Merge(hits[i], next)] \o rest

\* prev.map((o) => (o.id === id ? { ...o, ...next } : o))
mapOffers(prev, id, next) ==
    [i \in DOMAIN prev |-> IF prev[i].id = id THEN Merge(prev[i], next) ELSE prev[i]]

\* the offers changed in place, prev kept as the state: React sees the same
\* array and schedules no effect
updateOffer_inPlace(id, next) ==
    /\ offers' = JArray(mapOffers(offers.items, id, next))
    /\ UNCHANGED <<route, email, conversations, selectedConversationId, storage,
                   pendingEffects, crashed, thrown, clock, query, status,
                   value, active, open, rows, download>>

\* setOffers stores a new array, so the effect of line 837 is scheduled even
\* when no offer matched.
updateOffer(id, next) ==
    /\ offers' = JArray(mapOffers(offers.items, id, next))
    /\ pendingEffects' = {"offers"}
    /\ UNCHANGED <<route, email, conversations, selectedConversationId, storage,
                   crashed, thrown, clock, query, status,
                   value, active, open, rows, download>>

\* the ids a caller may pass: those of the seed offers and one no offer has
OfferIdArgs == {"OF-1029", "OF-1034", "OF-1039", "OF-1042", "OF-0000"}

\* OffersPage's onUpdate prop (line 898) called with a status patch
onUpdate(id, s) ==
    /\ Idle
    /\ route = "offers"
    /\ updateOffer(id, [status |-> s])

-----------------------------------------------------------------------------
(* openChatFor, lines 854-860.                                             *)

\* the last match instead of the first
findByHolder_last(convs, holderName) ==
    LET hits == {i \in DOMAIN convs : convs[i].holderName = holderName}
    IN IF hits = {} THEN 0 ELSE CHOOSE i \in hits : \A j \in hits : i >= j

\* index of the conversation that convs.find((c) => c.holderName === holderName)
\* returns, 0 when it returns undefined
findByHolder(convs, holderName) ==
    LET hits == {i \in DOMAIN convs : convs[i].holderName = holderName}
    IN IF hits = {} THEN 0 ELSE CHOOSE i \in hits : \A j \in hits : i <= j

openChatFor(holderName) ==
    IF ~IsArray(conversations)
    THEN \* conversations.find is not a function: the handler throws
         /\ thrown' = TRUE
         /\ UNCHANGED <<route, email, offers, conversations, selectedConversationId,
                        storage, pendingEffects, crashed, clock, query, status,
                        value, active, open, rows, download>>
    ELSE LET k == findByHolder(conversations.items, holderName)
         IN IF k # 0
            THEN /\ selectedConversationId' = conversations.items[k].id
                 /\ route' = "messages"
                 /\ query' = ""
                 /\ status' = "all"
                 /\ open' = FALSE
                 /\ active' = JNull
                 /\ UNCHANGED <<email, offers, conversations, storage, pendingEffects,
                                crashed, clock, thrown, value, rows, download>>
            ELSE UNCHANGED vars

HolderArgs ==
    {"NEO Holdings", "Jeddah Municipality", "Najm Tech", "Al Noor Steel", "Nobody Inc"}

\* OffersPage's onOpenChat prop (line 898)
onOpenChat(holderName) ==
    /\ Idle
    /\ route = "offers"
    /\ openChatFor(holderName)

-----------------------------------------------------------------------------
(* sendMessage, lines 862-871, and the conversation list of MessagesPage.  *)

\* what Math.random().toString(36).slice(2) may return
RandomIds == {"m1", "k3x"}

\* the new message put first, [msg, ...c.messages]
mapConversations_prepend(prev, convId, msg) ==
    [i \in DOMAIN prev |->
        IF prev[i].id = convId
        THEN [prev[i] EXCEPT !.messages = <<msg>> \o @]
        ELSE prev[i]]

mapConversations(prev, convId, msg) ==
    [i \in DOMAIN prev |->
        IF prev[i].id = convId
        THEN [prev[i] EXCEPT !.messages = Append(@, msg)]
        ELSE prev[i]]

sendMessage(convId, body, rid) ==
    LET msg == [id |-> rid, from |-> "provider", body |-> body, at |-> clock]
    IN /\ conversations' = JArray(mapConversations(conversations.items, convId, msg))
       /\ pendingEffects' = {"conversations"}
       /\ clock' = clock + 1
       /\ UNCHANGED <<route, email, offers, selectedConversationId, storage,
                      crashed, thrown, query, status, active, open, rows, download>>

\* the ids a caller may pass: those of the conversations and one none has
ConvIdArgs == {"C-101", "C-102", "C-103", "C-000"}
Bodies == {"hi", " ok "}

\* MessagesPage's onSend prop (line 902)
onSend(convId, body, rid) ==
    /\ Idle
    /\ route = "messages"
    /\ clock < MaxSends
    /\ sendMessage(convId, body, rid)
    /\ UNCHANGED value

\* MessagesPage's setSelectedId prop, called with the id of a listed
\* conversation (lines 653-656)
setSelectedId(id) ==
    /\ Idle
    /\ route = "messages"
    /\ \E i \in DOMAIN conversations.items : conversations.items[i].id = id
    /\ selectedConversationId' = id
    /\ UNCHANGED <<route, email, offers, conversations, storage, pendingEffects,
                   crashed, thrown, clock, query, status,
                   value, active, open, rows, download>>

\* find without the ?? conversations[0] fallback
current_noFallback(convs, selectedId) ==
    LET hits == {i \in DOMAIN convs : convs[i].id = selectedId}
    IN IF hits # {} THEN CHOOSE i \in hits : \A j \in hits : i <= j ELSE 0

\* MessagesPage.current, line 630: the index of
\* conversations.find((c) => c.id === selectedId) ?? conversations[0],
\* 0 when that is undefined
current(convs, selectedId) ==
    LET hits == {i \in DOMAIN convs : convs[i].id = selectedId}
    IN IF hits # {} THEN CHOOSE i \in hits : \A j \in hits : i <= j
       ELSE IF Len(convs) > 0 THEN 1 ELSE 0

-----------------------------------------------------------------------------
(* String operations of JavaScript, on sequences of characters.            *)

WhiteSpace == {" ", "\t", "\n"}

RECURSIVE trimStart(_)
trimStart(cs) ==
    IF cs # << >> /\ Head(cs) \in WhiteSpace THEN trimStart(Tail(cs)) ELSE cs

RECURSIVE trimEnd(_)
trimEnd(cs) ==
    IF cs # << >> /\ cs[Len(cs)] \in WhiteSpace
    THEN trimEnd(SubSeq(cs, 1, Len(cs) - 1))
    ELSE cs

\* String.prototype.trim
trim(cs) == trimEnd(trimStart(cs))

LowerTable ==
    ("A" :> "a") @@ ("B" :> "b") @@ ("C" :> "c") @@ ("D" :> "d") @@ ("E" :> "e")
    @@ ("F" :> "f") @@ ("G" :> "g") @@ ("H" :> "h") @@ ("I" :> "i") @@ ("J" :> "j")
    @@ ("K" :> "k") @@ ("L" :> "l") @@ ("M" :> "m") @@ ("N" :> "n") @@ ("O" :> "o")
    @@ ("P" :> "p") @@ ("Q" :> "q") @@ ("R" :> "r") @@ ("S" :> "s") @@ ("T" :> "t")
    @@ ("U" :> "u") @@ ("V" :> "v") @@ ("W" :> "w") @@ ("X" :> "x") @@ ("Y" :> "y")
    @@ ("Z" :> "z")

\* String.prototype.toLowerCase
toLowerCase(cs) ==
    [i \in DOMAIN cs |-> IF cs[i] \in DOMAIN LowerTable THEN LowerTable[cs[i]] ELSE cs[i]]

\* the parts joined with nothing between them
RECURSIVE join_noSeparator(_, _)
join_noSeparator(parts, sep) ==
    IF parts = << >> THEN << >> ELSE parts[1] \o join_noSeparator(Tail(parts), sep)

\* Array.prototype.join
RECURSIVE join(_, _)
join(parts, sep) ==
    IF parts = << >> THEN << >>
    ELSE IF Len(parts) = 1 THEN parts[1]
    ELSE parts[1] \o sep \o join(Tail(parts), sep)

\* String.prototype.includes
includes(hay, needle) ==
    \E i \in 1..(Len(hay) - Len(needle) + 1) : SubSeq(hay, i, i + Len(needle) - 1) = needle

-----------------------------------------------------------------------------
(* Derived views.                                                          *)

\* Math.floor in place of Math.round
MathRound_floor(num, den) == num \div den

\* Math.round of the quotient num / den, den > 0: halves round up.  The code
\* rounds the double (accepted / total) * 100, which is this value for every
\* total below 8 (no quotient there falls on a half).
MathRound(num, den) == (2 * num + den) \div (2 * den)

\* DashboardPage, lines 370-375
DashboardPage(offs) ==
    LET accepted == Len(SelectSeq(offs, LAMBDA o : o.status = "accepted"))
        pending == Len(SelectSeq(offs, LAMBDA o : o.status = "pending"))
        declined == Len(SelectSeq(offs, LAMBDA o : o.status = "declined"))
        total == Len(offs)
    IN [total |-> total, accepted |-> accepted, pending |-> pending,
        declined |-> declined,
        acceptanceRate |-> IF total # 0 THEN MathRound(accepted * 100, total) ELSE 0]

RECURSIVE sumBudget(_)
sumBudget(offs) ==
    IF offs = << >> THEN 0 ELSE Head(offs).budget + sumBudget(Tail(offs))

\* ReportsPage, lines 723-725
ReportsPage(offs) ==
    [revenue |-> sumBudget(SelectSeq(offs, LAMBDA o : o.status = "accepted")),
     successRate |->
        IF Len(offs) # 0
        THEN MathRound(Len(SelectSeq(offs, LAMBDA o : o.status = "accepted")) * 100,
                       Len(offs))
        ELSE 0]

\* OffersPage.filtered, lines 435-444
filtered(offs, qry, st) ==
    LET q == toLowerCase(trim(Chars(qry)))
        byStatus == SelectSeq(offs, LAMBDA o : IF st = "all" THEN TRUE ELSE o.status = st)
    IN SelectSeq(byStatus, LAMBDA o :
            IF q = << >> THEN TRUE
            ELSE includes(toLowerCase(join(<<Chars(o.projectTitle), Chars(o.holderName),
                                             Chars(o.technology), Chars(o.id)>>,
                                           <<" ">>)),
                          q))

-----------------------------------------------------------------------------
(* OffersPage: the search box, the status select and the row menu,         *)
(* lines 430-453, 462-479 and 527-537.                                     *)

Queries == {"", " Smart", "k NEO", "  ", "IOT", "1042 "}
StatusFilters == {"all", "pending", "accepted", "declined"}

setQuery(q) ==
    /\ Idle
    /\ route = "offers"
    /\ query' = q
    /\ UNCHANGED <<route, email, offers, conversations, selectedConversationId,
                   storage, pendingEffects, crashed, thrown, clock, status,
                   value, active, open, rows, download>>

setStatus(v) ==
    /\ Idle
    /\ route = "offers"
    /\ status' = v
    /\ UNCHANGED <<route, email, offers, conversations, selectedConversationId,
                   storage, pendingEffects, crashed, thrown, clock, query,
                   value, active, open, rows, download>>

\* setStatusFor, lines 451-453
setStatusFor(id, s) == onUpdate(id, s)

\* the Accept and Decline items of the menu of a listed row, lines 532-537
RowSetStatus(s) ==
    /\ route = "offers"
    /\ ~crashed
    /\ LET listed == filtered(offers.items, query, status)
       IN \E k \in DOMAIN listed : setStatusFor(listed[k].id, s)

\* the Message holder item of the menu of a listed row, lines 528-530
RowMessageHolder ==
    /\ route = "offers"
    /\ ~crashed
    /\ LET listed == filtered(offers.items, query, status)
       IN \E k \in DOMAIN listed : onOpenChat(listed[k].holderName)

\* a menu that also offers to set an offer back to pending
MenuStatuses_withPending == {"accepted", "declined", "pending"}

\* the statuses the Accept and Decline controls pass, lines 532-537 and 600-605
MenuStatuses == {"accepted", "declined"}

\* OffersPage driven through its own controls
NextOffersPage ==
    \/ FlushEffects
    \/ \E typed \in Emails : handleSubmit(typed)
    \/ \E r \in SidebarRoutes : setRoute(r)
    \/ \E q \in Queries : setQuery(q)
    \/ \E v \in StatusFilters : setStatus(v)
    \/ \E s \in MenuStatuses : RowSetStatus(s)
    \/ RowMessageHolder

SpecOffersPage == Init /\ [][NextOffersPage]_vars

-----------------------------------------------------------------------------
(* The details dialog of OffersPage, lines 446-449 and 548-611.            *)

\* openDetails, lines 446-449: active keeps the offer as it is listed now
openDetails(offer) ==
    /\ Idle
    /\ route = "offers"
    /\ active' = offer
    /\ open' = TRUE
    /\ UNCHANGED <<route, email, offers, conversations, selectedConversationId,
                   storage, pendingEffects, crashed, thrown, clock, query, status,
                   value, rows, download>>

\* the View item of the menu of a listed row, line 527
RowView ==
    /\ route = "offers"
    /\ ~crashed
    /\ LET listed == filtered(offers.items, query, status)
       IN \E k \in DOMAIN listed : openDetails(listed[k])

\* the Close button, line 595, and the dialog's onOpenChange(false), line 548
CloseDialog ==
    /\ Idle
    /\ route = "offers"
    /\ open
    /\ open' = FALSE
    /\ UNCHANGED <<route, email, offers, conversations, selectedConversationId,
                   storage, pendingEffects, crashed, thrown, clock, query, status,
                   active, value, rows, download>>

\* the Decline and Accept buttons of the dialog, lines 598-605
DialogSetStatus(s) ==
    /\ route = "offers"
    /\ open
    /\ active # JNull
    /\ onUpdate(active.id, s)

\* the Message Holder button of the dialog, lines 606-608
DialogMessageHolder ==
    /\ route = "offers"
    /\ open
    /\ active # JNull
    /\ onOpenChat(active.holderName)

\* OffersPage driven through the row menus and the dialog, the search box and
\* the status filter left as they start (every offer is listed).  The rows
\* stay reachable while the dialog is open: more behaviours than a modal
\* dialog allows.
NextOffersDialog ==
    \/ FlushEffects
    \/ \E typed \in Emails : handleSubmit(typed)
    \/ \E r \in SidebarRoutes : setRoute(r)
    \/ \E s \in MenuStatuses : RowSetStatus(s)
    \/ RowMessageHolder
    \/ RowView
    \/ CloseDialog
    \/ \E s \in MenuStatuses : DialogSetStatus(s)
    \/ DialogMessageHolder

SpecOffersDialog == Init /\ [][NextOffersDialog]_vars

-----------------------------------------------------------------------------
(* MessagesPage driven through its own controls, lines 618-720.            *)

\* the string whose characters are cs
Str(cs) == CHOOSE s \in DOMAIN CharTable : CharTable[s] = cs

\* texts the user may type in the input
Typed == {"", "  ", " ok ", "hi"}

\* the input's onChange, line 701
setValue(v) ==
    /\ Idle
    /\ route = "messages"
    /\ value' = v
    /\ UNCHANGED <<route, email, offers, conversations, selectedConversationId,
                   storage, pendingEffects, crashed, thrown, clock, query, status,
                   open, active, rows, download>>

\* the typed text sent as it is
handleSend_untrimmed(rid) ==
    /\ Idle
    /\ route = "messages"
    /\ clock < MaxSends
    /\ LET text == value
           k == current(conversations.items, selectedConversationId)
       IN IF text = "" \/ k = 0
          THEN UNCHANGED vars
          ELSE /\ sendMessage(conversations.items[k].id, text, rid)
               /\ value' = ""

\* handleSend, lines 638-643; rid is what Math.random yields in sendMessage
handleSend(rid) ==
    /\ Idle
    /\ route = "messages"
    /\ clock < MaxSends
    /\ LET text == Str(trim(Chars(value)))
           k == current(conversations.items, selectedConversationId)
       IN IF text = "" \/ k = 0
          THEN UNCHANGED vars
          ELSE /\ sendMessage(conversations.items[k].id, text, rid)
               /\ value' = ""

NextMessagesPage ==
    \/ FlushEffects
    \/ \E typed \in Emails : handleSubmit(typed)
    \/ \E r \in SidebarRoutes : setRoute(r)
    \/ \E id \in ConvIdArgs : setSelectedId(id)
    \/ \E v \in Typed : setValue(v)
    \/ \E rid \in RandomIds : handleSend(rid)

SpecMessagesPage == Init /\ [][NextMessagesPage]_vars

-----------------------------------------------------------------------------
(* exportCSV, lines 95-115.  A record is the sequence of its <<key, value>> *)
(* pairs in insertion order; a document is a sequence of characters.       *)

DigitChars == <<"0", "1", "2", "3", "4", "5", "6", "7", "8", "9">>

\* String(n) for a natural number
RECURSIVE NumberToString(_)
NumberToString(n) ==
    IF n < 10 THEN <<DigitChars[n + 1]>>
    ELSE NumberToString(n \div 10) \o <<DigitChars[(n % 10) + 1]>>

\* String(v ?? ""), line 99: null and undefined give the empty string
StringOf(v) ==
    IF v.t = "null" THEN << >>
    ELSE IF v.t = "number" THEN NumberToString(v.n)
    ELSE Chars(v.s)

\* s.replace(/"/g, '""')
RECURSIVE replaceQuotes(_)
replaceQuotes(s) ==
    IF s = << >> THEN << >>
    ELSE (IF Head(s) = "\"" THEN <<"\"", "\"">> ELSE <<Head(s)>>)
             \o replaceQuotes(Tail(s))

\* the value wrapped in quotes with its inner quotes left single
escape_noDoubling(v) ==
    LET s == StringOf(v)
    IN IF \E i \in DOMAIN s : s[i] \in {"\"", ",", "\n"}
       THEN <<"\"">> \o s \o <<"\"">>
       ELSE s

\* escape, lines 98-103
escape(v) ==
    LET s == StringOf(v)
    IN IF \E i \in DOMAIN s : s[i] \in {"\"", ",", "\n"}
       THEN <<"\"">> \o replaceQuotes(s) \o <<"\"">>
       ELSE s

\* Object.keys(r), line 97
Object_keys(r) == [i \in DOMAIN r |-> r[i][1]]

\* r[h], line 106: undefined, which escape treats as null, without the key
Get(r, h) ==
    IF \E i \in DOMAIN r : r[i][1] = h
    THEN r[CHOOSE i \in DOMAIN r : r[i][1] = h][2]
    ELSE JNull

\* csv, lines 104-107
csv(rs) ==
    LET headers == Object_keys(rs[1])
        headerLine == join([h \in DOMAIN headers |-> Chars(headers[h])], <<",">>)
        dataLine(r) == join([h \in DOMAIN headers |-> escape(Get(r, headers[h]))], <<",">>)
    IN join(<<headerLine>> \o [k \in DOMAIN rs |-> dataLine(rs[k])], <<"\n">>)

\* a call of exportCSV with the records in rows
exportCSV ==
    /\ download = NotCalled
    /\ download' = IF Len(rows) = 0 THEN NoFile ELSE File(csv(rows))
    /\ UNCHANGED <<route, email, offers, conversations, selectedConversationId,
                   storage, pendingEffects, crashed, thrown, clock, query, status,
                   open, active, value, rows>>

\* field values: a number, strings with a comma, a quote and a line break, a
\* plain string, and null
CsvValues ==
    { JNumber(1), JString("x,y"), JString("i\"n"), JString("l\nm"), JString("p"),
      JNull }

\* records with the fields a and b, inserted in either order
CsvRecords ==
    { << <<"a", v>>, <<"b", w>> >> : v \in CsvValues, w \in CsvValues }
        \cup { << <<"b", w>>, <<"a", v>> >> : v \in CsvValues, w \in CsvValues }

CsvInputs == UNION { [1..n -> CsvRecords] : n \in 0..MaxRows }

InitExportCSV ==
    /\ InitPortal(NoItem, NoItem)
    /\ rows \in CsvInputs
    /\ download = NotCalled

NextExportCSV == exportCSV

SpecExportCSV == InitExportCSV /\ [][NextExportCSV]_vars

-----------------------------------------------------------------------------
(* Next-state relation: ProviderPortalApp with its callbacks called by the *)
(* pages that hold them, with any argument.                                *)

Next ==
    \/ FlushEffects
    \/ \E typed \in Emails : handleSubmit(typed)
    \/ \E r \in SidebarRoutes : setRoute(r)
    \/ \E id \in OfferIdArgs, s \in OfferStatuses : onUpdate(id, s)
    \/ \E h \in HolderArgs : onOpenChat(h)
    \/ \E id \in ConvIdArgs : setSelectedId(id)
    \/ \E convId \in ConvIdArgs, body \in Bodies, rid \in RandomIds :
           onSend(convId, body, rid)

Spec == Init /\ [][Next]_vars

-----------------------------------------------------------------------------
(* Properties.                                                             *)

HasOffer(id) ==
    IsArray(offers) /\ \E i \in DOMAIN offers.items : offers.items[i].id = id

HasConversation(id) ==
    IsArray(conversations)
        /\ \E i \in DOMAIN conversations.items : conversations.items[i].id = id

HasHolder(h) ==
    IsArray(conversations)
        /\ \E i \in DOMAIN conversations.items : conversations.items[i].holderName = h

\* C1: updateOffer(o.id, {status: s}) on an offer o of the collection leaves the
\* offer with that id with status s and its other fields as they were, and
\* leaves every other offer as it was, at the same position.
C1_UpdateOfferSetsStatusOnly ==
    [][\A id \in OfferIdArgs, s \in OfferStatuses :
          (HasOffer(id) /\ onUpdate(id, s)) =>
              /\ IsArray(offers')
              /\ DOMAIN offers'.items = DOMAIN offers.items
              /\ \A i \in DOMAIN offers.items :
                    IF offers.items[i].id = id
                    THEN /\ DOMAIN offers'.items[i] = DOMAIN offers.items[i]
                         /\ offers'.items[i].status = s
                         /\ \A f \in DOMAIN offers.items[i] \ {"status"} :
                               offers'.items[i][f] = offers.items[i][f]
                    ELSE offers'.items[i] = offers.items[i]]_vars

\* C1 witness: the first seed offer, pending at first, is declined; its other
\* fields and the other three offers are those of the seed.
C1_Witness ==
    /\ IsArray(offers)
    /\ Len(offers.items) = 4
    /\ offers.items[1] = [seedOffers[1] EXCEPT !.status = "declined"]
    /\ \A i \in 2..4 : offers.items[i] = seedOffers[i]

\* C2: updateOffer with an id no offer has, sendMessage with an id no
\* conversation has and openChatFor with a holder name no conversation has leave
\* offers, conversations, selectedConversationId, route and email as they were
\* and raise nothing.
C2_NoMatchIsNoOp ==
    [][/\ \A id \in OfferIdArgs, s \in OfferStatuses :
             (~HasOffer(id) /\ onUpdate(id, s)) =>
                 /\ UNCHANGED <<offers, conversations, selectedConversationId, route, email>>
                 /\ UNCHANGED <<crashed, thrown>>
       /\ \A id \in ConvIdArgs, body \in Bodies, rid \in RandomIds :
             (~HasConversation(id) /\ onSend(id, body, rid)) =>
                 /\ UNCHANGED <<offers, conversations, selectedConversationId, route, email>>
                 /\ UNCHANGED <<crashed, thrown>>
       /\ \A h \in HolderArgs :
             (~HasHolder(h) /\ onOpenChat(h)) =>
                 /\ UNCHANGED <<offers, conversations, selectedConversationId, route, email>>
                 /\ UNCHANGED <<crashed, thrown>>]_vars

\* The part of C2 that the code keeps: the same, for openChatFor only where
\* conversations is an array.
NoMatchIsNoOpOnArrays ==
    [][/\ \A id \in OfferIdArgs, s \in OfferStatuses :
             (~HasOffer(id) /\ onUpdate(id, s)) =>
                 UNCHANGED <<offers, conversations, selectedConversationId, route,
                             email, crashed, thrown>>
       /\ \A id \in ConvIdArgs, body \in Bodies, rid \in RandomIds :
             (~HasConversation(id) /\ onSend(id, body, rid)) =>
                 UNCHANGED <<offers, conversations, selectedConversationId, route,
                             email, crashed, thrown>>
       /\ \A h \in HolderArgs :
             (IsArray(conversations) /\ ~HasHolder(h) /\ onOpenChat(h)) =>
                 UNCHANGED <<offers, conversations, selectedConversationId, route,
                             email, crashed, thrown>>]_vars

\* C3: sendMessage(c.id, b) on a conversation c of the collection adds exactly
\* one message at the end of c's messages, from the provider and with body b;
\* the earlier messages keep index and content, c's other fields and every other
\* conversation are as they were.
C3_SendAppendsOne ==
    [][\A id \in ConvIdArgs, body \in Bodies, rid \in RandomIds :
          (HasConversation(id) /\ onSend(id, body, rid)) =>
              /\ IsArray(conversations')
              /\ DOMAIN conversations'.items = DOMAIN conversations.items
              /\ \A i \in DOMAIN conversations.items :
                    LET old == conversations.items[i]
                        new == conversations'.items[i]
                    IN IF old.id = id
                       THEN /\ Len(new.messages) = Len(old.messages) + 1
                            /\ \A k \in DOMAIN old.messages :
                                  new.messages[k] = old.messages[k]
                            /\ new.messages[Len(new.messages)].from = "provider"
                            /\ new.messages[Len(new.messages)].body = body
                            /\ [new EXCEPT !.messages = old.messages] = old
                       ELSE new = old]_vars

\* C3 witness: C-101 holds its two seed messages and then a third, from the
\* provider, with body "hi"; C-102 is as seeded.
C3_Witness ==
    /\ IsArray(conversations)
    /\ Len(conversations.items) = 2
    /\ conversations.items[2] = seedConversations[2]
    /\ conversations.items[1].id = "C-101"
    /\ Len(conversations.items[1].messages) = 3
    /\ SubSeq(conversations.items[1].messages, 1, 2) = seedConversations[1].messages
    /\ conversations.items[1].messages[3].from = "provider"
    /\ conversations.items[1].messages[3].body = "hi"

\* C4: when some conversation has the holder name, openChatFor selects the
\* first of them in collection order and shows the messages page; with the seed
\* conversations, "NEO Holdings" selects C-101.
C4_OpenChatSelectsFirst ==
    [][\A h \in HolderArgs :
          (HasHolder(h) /\ onOpenChat(h)) =>
              /\ route' = "messages"
              /\ \E k \in DOMAIN conversations.items :
                    /\ conversations.items[k].holderName = h
                    /\ \A j \in 1..(k - 1) : conversations.items[j].holderName # h
                    /\ selectedConversationId' = conversations.items[k].id
              /\ (/\ h = "NEO Holdings"
                  /\ [i \in DOMAIN conversations.items |-> conversations.items[i].id]
                        = <<"C-101", "C-102">>)
                 => selectedConversationId' = "C-101"]_vars

\* C4 witness: the messages page shows C-102, the first of the two stored
\* conversations of Jeddah Municipality, or C-102 of the seed after C-101 was
\* the selection.
C4_Witness ==
    /\ route = "messages"
    /\ selectedConversationId = "C-102"
    /\ IsArray(conversations)
    /\ Len(conversations.items) = 2
    /\ conversations.items[1].id = "C-101"
    /\ conversations.items[2].holderName = "Jeddah Municipality"
    /\ clock = 0
    /\ query = ""

\* The first start of the application: both effects are still to run, and
\* storage holds what the initializers read.
Mounting == pendingEffects = {"offers", "conversations"}

\* C5: a key that is absent or holds a string that is not JSON text gives the
\* seed collection of that key and raises nothing, whatever the other key holds.
C5_UnparseableFallsBackToSeed ==
    Mounting =>
        /\ storage.pp_offers \in {NoItem, RawText(""), RawText("not json{")}
              => offers = JArray(seedOffers)
        /\ storage.pp_conversations \in {NoItem, RawText(""), RawText("not json{")}
              => conversations = JArray(seedConversations)
        /\ ~crashed
        /\ ~thrown

\* C5 witness: pp_offers is not JSON and pp_conversations holds a stored
\* collection: offers are the seed, conversations the stored ones.
C5_Witness ==
    /\ Mounting
    /\ storage.pp_offers = RawText("not json{")
    /\ storage.pp_conversations = JsonText(JArray(storedConversations))
    /\ offers = JArray(seedOffers)
    /\ conversations = JArray(storedConversations)
    /\ selectedConversationId = "C-102"

OfferFields ==
    {"id", "projectTitle", "holderName", "budget", "timelineMonths", "technology",
     "receivedAt", "status"}
ConversationFields ==
    {"id", "holderName", "holderInitials", "projectTitle", "lastSeenAt", "messages"}

\* C6: whatever JSON the keys hold, the offers and conversations in state are
\* sequences of well-formed records, and no view or action raises.
C6_StateIsWellFormed ==
    /\ IsArray(offers)
    /\ IsArray(conversations)
    /\ IsArray(offers) =>
          \A i \in DOMAIN offers.items :
              OfferFields \subseteq DOMAIN offers.items[i]
    /\ IsArray(conversations) =>
          \A i \in DOMAIN conversations.items :
              ConversationFields \subseteq DOMAIN conversations.items[i]
    /\ ~crashed
    /\ ~thrown

\* C7: once the effects of the last action have run, each stored item is the
\* JSON text of the collection in state.
C7_StorageFollowsState ==
    pendingEffects = {} =>
        /\ storage.pp_offers.k = "string"
        /\ storage.pp_offers.parses
        /\ JSON_parse(storage.pp_offers).v = offers
        /\ storage.pp_conversations.k = "string"
        /\ storage.pp_conversations.parses
        /\ JSON_parse(storage.pp_conversations).v = conversations

\* C7 witness: an offer was updated and a message was sent, and storage holds
\* both results.
C7_Witness ==
    /\ pendingEffects = {}
    /\ IsArray(offers) /\ IsArray(conversations)
    /\ Len(offers.items) = 4
    /\ offers.items[1].status = "accepted"
    /\ offers.items[4].status = "pending"
    /\ Len(conversations.items) = 2
    /\ Len(conversations.items[2].messages) = 2
    /\ conversations.items[2].messages[2].body = " ok "
    /\ storage.pp_offers = JsonText(offers)
    /\ storage.pp_conversations = JsonText(conversations)

CountStatus(offs, s) == Cardinality({i \in DOMAIN offs : offs[i].status = s})

\* C8: the dashboard reports the number of offers and the number in each
\* status; acceptanceRate is accepted / total * 100 rounded to the nearest
\* integer, halves up, and 0 without offers; successRate of the report page is
\* the same number; both lie in 0..100; the seed gives 4, 1, 2, 1 and 25.
C8_DashboardAggregates ==
    IsArray(offers) =>
        LET offs == offers.items
            d == DashboardPage(offs)
            r == d.acceptanceRate
        IN /\ d.total = Len(offs)
           /\ d.accepted = CountStatus(offs, "accepted")
           /\ d.pending = CountStatus(offs, "pending")
           /\ d.declined = CountStatus(offs, "declined")
           /\ Len(offs) = 0 => r = 0
           /\ Len(offs) > 0 =>
                 /\ 2 * r * Len(offs) <= 200 * d.accepted + Len(offs)
                 /\ 200 * d.accepted + Len(offs) < 2 * (r + 1) * Len(offs)
           /\ r \in 0..100
           /\ ReportsPage(offs).successRate = r
           /\ offs = seedOffers =>
                 d = [total |-> 4, accepted |-> 1, pending |-> 2, declined |-> 1,
                      acceptanceRate |-> 25]

\* C8 witness: the dashboard of three offers, two of them accepted: 67.
C8_Witness ==
    /\ route = "dashboard"
    /\ ~crashed
    /\ Len(offers.items) = 3
    /\ CountStatus(offers.items, "accepted") = 2
    /\ DashboardPage(offers.items).acceptanceRate = 67
    /\ ReportsPage(offers.items).successRate = 67

IsSubstring(needle, hay) ==
    \E i \in 0..Len(hay), j \in 0..Len(hay) : i <= j /\ SubSeq(hay, i + 1, j) = needle

\* lowercased projectTitle, holderName, technology and id, a space between them
Haystack(o) ==
    toLowerCase(Chars(o.projectTitle) \o <<" ">> \o Chars(o.holderName) \o <<" ">>
                \o Chars(o.technology) \o <<" ">> \o Chars(o.id))

\* res holds exactly the elements of src that satisfy Keep, in the order of src
IsSelection(res, src, Keep(_)) ==
    LET idx == {i \in DOMAIN src : Keep(src[i])}
    IN /\ Len(res) = Cardinality(idx)
       /\ \A i \in idx : res[Cardinality({j \in idx : j <= i})] = src[i]

\* C9 as stated: the offers listed are those of the selected status ("all":
\* any) of which the lowercased query is a substring of the haystack, in the
\* order of the collection.
C9_FilterByLowercasedQuery ==
    (route = "offers" /\ ~crashed) =>
        IsSelection(filtered(offers.items, query, status), offers.items,
                    LAMBDA o : /\ status = "all" \/ o.status = status
                               /\ IsSubstring(toLowerCase(Chars(query)), Haystack(o)))

\* C9 amended: the same with the query trimmed before it is lowercased, so that
\* a query of white space alone matches every offer.
C9_FilterByTrimmedQuery ==
    (route = "offers" /\ ~crashed) =>
        /\ IsSelection(filtered(offers.items, query, status), offers.items,
                       LAMBDA o : /\ status = "all" \/ o.status = status
                                  /\ IsSubstring(toLowerCase(trim(Chars(query))),
                                                 Haystack(o)))
        /\ (trim(Chars(query)) = << >> /\ status = "all")
              => filtered(offers.items, query, status) = offers.items

\* C9 witness: the query "k NEO" under the filter "pending" lists the first
\* seed offer alone: the match runs over the space between title and holder.
C9_Witness ==
    /\ route = "offers"
    /\ ~crashed
    /\ query = "k NEO"
    /\ status = "pending"
    /\ Len(offers.items) = 4
    /\ offers.items[3].status = "pending"
    /\ filtered(offers.items, query, status) = <<seedOffers[1]>>

\* C10: submitting the login form with any email text shows the dashboard,
\* sets email to the text, or to provider@example.com when the text is empty,
\* and leaves offers, conversations and the selection alone.
C10_LoginAlwaysSucceeds ==
    [][\A typed \in Emails :
          handleSubmit(typed) =>
              /\ route' = "dashboard"
              /\ route' # "login"
              /\ email' = (IF typed = "" THEN "provider@example.com" ELSE typed)
              /\ UNCHANGED <<offers, conversations, selectedConversationId>>]_vars

\* C10 witness: logged in with the empty email text.
C10_Witness ==
    /\ route = "dashboard"
    /\ email = "provider@example.com"
    /\ offers = JArray(seedOffers)

\* C11: the resolved conversation is the one whose id is the selected id when
\* the collection has one, else the first conversation; there is none exactly
\* when the collection is empty.  Checked for null, for the ids of the
\* collection and for ids it does not hold.
C11_CurrentResolution ==
    IsArray(conversations) =>
        \A sel \in ConvIdArgs \cup {NULL, selectedConversationId} :
            LET convs == conversations.items
                k == current(convs, sel)
            IN /\ k \in 0..Len(convs)
               /\ (\E i \in DOMAIN convs : convs[i].id = sel)
                     => (k # 0 /\ convs[k].id = sel)
               /\ (\A i \in DOMAIN convs : convs[i].id # sel)
                     => k = (IF Len(convs) > 0 THEN 1 ELSE 0)
               /\ (k = 0) <=> (Len(convs) = 0)

\* C11 witness: the messages page with the second of two conversations
\* selected; an id the collection does not hold and null resolve to the first.
C11_Witness ==
    /\ route = "messages"
    /\ ~crashed
    /\ Len(conversations.items) = 2
    /\ selectedConversationId = conversations.items[2].id
    /\ current(conversations.items, selectedConversationId) = 2
    /\ current(conversations.items, "C-000") = 1
    /\ current(conversations.items, NULL) = 1

\* C13: within each conversation the ids of the messages are pairwise
\* distinct in every reachable state (every sent message has a fresh id).
C13_MessageIdsDistinct ==
    IsArray(conversations) =>
        \A k \in DOMAIN conversations.items :
            LET msgs == conversations.items[k].messages
            IN \A i, j \in DOMAIN msgs : msgs[i].id = msgs[j].id => i = j

\* A step of a user action: login, route change, updateOffer, openChatFor,
\* conversation selection or send (FlushEffects changes storage only).
UserActionStep ==
    \/ route' # route
    \/ email' # email
    \/ offers' # offers
    \/ conversations' # conversations
    \/ selectedConversationId' # selectedConversationId
    \/ thrown' # thrown
    \/ clock' # clock

OfferIds(offs) == [i \in DOMAIN offs.items |-> offs.items[i].id]

\* C15: in every reachable state the ids of the offers are pairwise distinct
\* and every status is pending, accepted or declined; no step adds, deletes
\* or reorders an offer: the sequence of ids stays the initial one.
C15_OffersKeepIdentity ==
    /\ [](IsArray(offers) =>
            /\ \A i, j \in DOMAIN offers.items :
                   offers.items[i].id = offers.items[j].id => i = j
            /\ \A i \in DOMAIN offers.items :
                   offers.items[i].status \in OfferStatuses)
    /\ [][IsArray(offers) =>
              IsArray(offers') /\ OfferIds(offers') = OfferIds(offers)]_vars

\* C15 witness: after a login, an update of the second seed offer and a send,
\* the four seed ids are still there in their order.
C15_Witness ==
    /\ IsArray(offers)
    /\ OfferIds(offers) = <<"OF-1029", "OF-1034", "OF-1039", "OF-1042">>
    /\ offers.items[2].status # seedOffers[2].status
    /\ clock = 1
    /\ route = "messages"

\* C17: the selected conversation id is never dangling: in every reachable
\* state it is null or the id of a conversation of the collection.
C17_SelectionNeverDangling ==
    \/ selectedConversationId = NULL
    \/ /\ IsArray(conversations)
       /\ \E i \in DOMAIN conversations.items :
              conversations.items[i].id = selectedConversationId

\* t is v without its leading and trailing white space
IsTrimOf(t, v) ==
    /\ t = << >> \/ (t[1] \notin WhiteSpace /\ t[Len(t)] \notin WhiteSpace)
    /\ \E i \in 1..(Len(v) + 1) :
           /\ i + Len(t) - 1 <= Len(v)
           /\ SubSeq(v, i, i + Len(t) - 1) = t
           /\ \A j \in DOMAIN v : (j < i \/ j >= i + Len(t)) => v[j] \in WhiteSpace

\* C16: every message has a non-empty body in every reachable state; a step
\* of the messages page that changes conversations appends one message, whose
\* body is the typed text trimmed and is not empty, to the resolved
\* conversation and changes no other conversation (so nothing is appended
\* when the trimmed text is empty or no conversation is resolved).
C16_SendTrimmedToCurrent ==
    /\ [](IsArray(conversations) =>
            \A k \in DOMAIN conversations.items :
                \A i \in DOMAIN conversations.items[k].messages :
                    conversations.items[k].messages[i].body # "")
    /\ [][conversations' # conversations =>
            LET convs == conversations.items
                k == current(convs, selectedConversationId)
            IN /\ k # 0
               /\ DOMAIN conversations'.items = DOMAIN convs
               /\ \A j \in DOMAIN convs :
                      j # k => conversations'.items[j] = convs[j]
               /\ \E msg \in {conversations'.items[k].messages[
                                  Len(conversations'.items[k].messages)]} :
                      /\ conversations'.items[k] =
                             [convs[k] EXCEPT !.messages = Append(@, msg)]
                      /\ msg.body # ""
                      /\ msg.from = "provider"
                      /\ IsTrimOf(Chars(msg.body), Chars(value))]_vars

\* C16 witness: " ok " was typed and sent with the second conversation
\* selected: that conversation ends with a message of body "ok", the input is
\* empty again.
C16_Witness ==
    /\ route = "messages"
    /\ value = ""
    /\ clock = 1
    /\ IsArray(conversations)
    /\ Len(conversations.items) = 2
    /\ selectedConversationId = conversations.items[2].id
    /\ LET msgs == conversations.items[2].messages
       IN /\ msgs # << >>
          /\ msgs[Len(msgs)].at = 0
          /\ msgs[Len(msgs)].body = "ok"
    /\ \A i \in DOMAIN conversations.items[1].messages :
           conversations.items[1].messages[i].at < 0

\* C18: through the row menus and the dialog a status is only ever set to
\* accepted or declined: no step raises the number of pending offers, and an
\* offer that is not pending is not pending after the step.
C18_PendingNeverReturns ==
    [][IsArray(offers) =>
          /\ IsArray(offers')
          /\ DOMAIN offers'.items = DOMAIN offers.items
          /\ \A i \in DOMAIN offers.items :
                 /\ offers'.items[i].status # offers.items[i].status
                        => offers'.items[i].status \in {"accepted", "declined"}
                 /\ offers.items[i].status # "pending"
                        => offers'.items[i].status # "pending"
          /\ CountStatus(offers'.items, "pending")
                 <= CountStatus(offers.items, "pending")]_vars

\* C18 witness: of the three stored offers the first (stored as accepted) is
\* now declined, the third (stored as declined) is now accepted and the
\* second has left pending; the dialog is open on the first.
C18_Witness ==
    /\ route = "offers"
    /\ IsArray(offers)
    /\ Len(offers.items) = 3
    /\ offers.items[1].status = "declined"
    /\ offers.items[2].status = "accepted"
    /\ offers.items[3].status = "accepted"
    /\ open
    /\ active # JNull
    /\ active.id = offers.items[1].id
    /\ active.status = "accepted"
    /\ pendingEffects = {}

\* The pieces of cs between the separators that stand outside double quotes,
\* as a reader of CSV text takes them.
RECURSIVE Fields(_, _, _, _)
Fields(cs, sep, inQuotes, cur) ==
    IF cs = << >> THEN <<cur>>
    ELSE IF Head(cs) = sep /\ ~inQuotes
         THEN <<cur>> \o Fields(Tail(cs), sep, FALSE, << >>)
         ELSE Fields(Tail(cs), sep,
                     IF Head(cs) = "\"" THEN ~inQuotes ELSE inQuotes,
                     Append(cur, Head(cs)))

\* cs with every pair of double quotes read as one
RECURSIVE Undouble(_)
Undouble(cs) ==
    IF cs = << >> THEN << >>
    ELSE IF Len(cs) >= 2 /\ cs[1] = "\"" /\ cs[2] = "\""
         THEN <<"\"">> \o Undouble(SubSeq(cs, 3, Len(cs)))
         ELSE <<cs[1]>> \o Undouble(Tail(cs))

CountChar(cs, c) == Cardinality({i \in DOMAIN cs : cs[i] = c})

\* field f is the text s as the escaping rule writes it
IsEscaped(f, s) ==
    IF \E i \in DOMAIN s : s[i] \in {",", "\"", "\n"}
    THEN /\ Len(f) = Len(s) + CountChar(s, "\"") + 2
         /\ f[1] = "\""
         /\ f[Len(f)] = "\""
         /\ Undouble(SubSeq(f, 2, Len(f) - 1)) = s
    ELSE f = s

\* C12: exportCSV of no records produces no file; of records it produces a
\* document whose first line is the field names of the first record joined by
\* commas, followed by one line per record with the record's values in the
\* order of those names, a value with a comma, a double quote or a line break
\* wrapped in double quotes with its quotes doubled, any other value as it
\* is; [{a:1, b:"x,y"}] gives a,b and 1,"x,y".
C12_CsvExport ==
    download # NotCalled =>
        /\ (Len(rows) = 0) <=> (download = NoFile)
        /\ Len(rows) > 0 =>
             /\ download.k = "file"
             /\ LET names == Object_keys(rows[1])
                    lines == Fields(download.text, "\n", FALSE, << >>)
                IN /\ Len(lines) = Len(rows) + 1
                   /\ Fields(lines[1], ",", FALSE, << >>)
                          = [j \in DOMAIN names |-> Chars(names[j])]
                   /\ \A r \in DOMAIN rows :
                          LET fs == Fields(lines[r + 1], ",", FALSE, << >>)
                          IN /\ Len(fs) = Len(names)
                             /\ \A j \in DOMAIN names :
                                    IsEscaped(fs[j], StringOf(Get(rows[r], names[j])))
        /\ rows = << << <<"a", JNumber(1)>>, <<"b", JString("x,y")>> >> >> =>
               download = File(<<"a", ",", "b", "\n",
                                 "1", ",", "\"", "x", ",", "y", "\"">>)

\* C12 witness: two records were exported, the second with its fields in the
\* other order, with a comma, a quote and a line break among the values.
C12_Witness ==
    /\ rows = << << <<"a", JNumber(1)>>, <<"b", JString("x,y")>> >>,
                 << <<"b", JString("i\"n")>>, <<"a", JString("l\nm")>> >> >>
    /\ download = File(<<"a", ",", "b", "\n",
                         "1", ",", "\"", "x", ",", "y", "\"", "\n",
                         "\"", "l", "\n", "m", "\"", ",",
                         "\"", "i", "\"", "\"", "n", "\"">>)

=============================================================================
